---- MODULE Spec2Model ----
(***************************************************************************)
(* A model of main.cpp of BMP_Image_Processing_App: the BMP codec           *)
(* (get_int, read_image, set_bytes, write_image) and the transforms         *)
(* process_3, process_4, process_5 and process_7, as operators computed     *)
(* the way the code computes them, applied by the actions of a small        *)
(* pipeline: bytes -> read_image -> grid -> transform -> write_image.       *)
(*                                                                         *)
(* A grid (vector<vector<Pixel> >) is a sequence of rows, each a sequence   *)
(* of Pixel records; C++ index i is TLA+ index i+1.  A byte stream is a     *)
(* sequence of numbers in 0..255; offset k is index k+1.                    *)
(***************************************************************************)
EXTENDS Integers, Sequences, FiniteSets, TLC

(***************************************************************************)
(* Bounds of the model.                                                    *)
(***************************************************************************)
MaxH == 2        \* grids and files have at most MaxH rows
MaxW == 4        \* ... and at most MaxW columns (padding 0, 3, 2, 1, 0)
MaxN == 5        \* process_5 is called with number in -MaxN..MaxN
MaxRot == 4      \* process_4 is applied at most MaxRot times in sequence
MaxScale == 2    \* process_6 is called with scales up to MaxScale

(***************************************************************************)
(* C++ int arithmetic: / and % truncate toward zero, >> on a signed int    *)
(* is an arithmetic shift, (unsigned char) keeps the low 8 bits.           *)
(***************************************************************************)
Abs(a) == IF a < 0 THEN -a ELSE a

CDiv(a, b) == IF (a < 0) = (b < 0) THEN Abs(a) \div Abs(b) ELSE -(Abs(a) \div Abs(b))

CMod(a, b) == a - b * CDiv(a, b)

Shr(value, n) == value \div (2 ^ n)

UChar(value) == value % 256

\* istream::get() at the end of the stream, or on a failed stream
EOF == -1

Pixel(r, g, b) == [red |-> r, green |-> g, blue |-> b]

\* image[row][col] with the C++ indices
At(image, row, col) == image[row + 1][col + 1]

\* image.size() and image[0].size()
Height(image) == Len(image)

Width(image) == Len(image[1])

(***************************************************************************)
(* The input stream of read_image: the file's bytes, the get position and  *)
(* the failbit.  A get() on a failed stream or past the last byte returns  *)
(* EOF and sets the failbit; seekg on a failed stream does nothing.        *)
(***************************************************************************)
OpenStream(data) == [data |-> data, pos |-> 0, fail |-> FALSE]

seekg(s, offset) ==
    IF s.fail THEN s
    ELSE IF offset < 0 THEN [s EXCEPT !.fail = TRUE]
    ELSE [s EXCEPT !.pos = offset]

\* the stream after one get()
GetNext(s) ==
    IF s.fail \/ s.pos >= Len(s.data) THEN [s EXCEPT !.fail = TRUE]
    ELSE [s EXCEPT !.pos = s.pos + 1]

\* the value that get() returns
GetVal(s) ==
    IF s.fail \/ s.pos >= Len(s.data) THEN EOF ELSE s.data[s.pos + 1]

RECURSIVE get_int_loop(_, _, _, _, _)
get_int_loop(s, i, bytes, result, base) ==
    IF i >= bytes THEN [val |-> result, s |-> s]
    ELSE get_int_loop(GetNext(s), i + 1, bytes,
                      result + GetVal(s) * base,
                      IF i + 1 < bytes THEN base * 256 ELSE base)

\* get_int: the little-endian integer at offset, and the stream afterwards.
\* (The last base * 256 of the loop is never read; it is not computed here.)
get_int(s, offset, bytes) == get_int_loop(seekg(s, offset), 0, bytes, 0, 1)

(***************************************************************************)
(* read_image                                                              *)
(***************************************************************************)
\* mutant of read_padding: the remainder itself is taken as the padding
read_padding_rem(scanline_size) == CMod(scanline_size, 4)

\* lines 57-62: the row padding of read_image
read_padding(scanline_size) ==
    IF CMod(scanline_size, 4) # 0 THEN 4 - CMod(scanline_size, 4) ELSE 0

\* line 71: vector<vector<Pixel> > image(height, vector<Pixel> (width))
NewImage(height, width) ==
    [i \in 1..height |-> [j \in 1..width |-> Pixel(0, 0, 0)]]

\* mutant of ReadPixel: the channels are read in the order red, green, blue
ReadPixel_rgb(s, pos) ==
    LET s0 == seekg(s, pos)
        s1 == GetNext(s0)
        s2 == GetNext(s1)
        s3 == GetNext(s2)
    IN  [pixel |-> [red |-> GetVal(s0), green |-> GetVal(s1), blue |-> GetVal(s2)],
         s |-> s3]

\* lines 82-88: seekg(pos), then blue, green, red are read in this order
ReadPixel(s, pos) ==
    LET s0 == seekg(s, pos)
        s1 == GetNext(s0)
        s2 == GetNext(s1)
        s3 == GetNext(s2)
    IN  [pixel |-> [blue |-> GetVal(s0), green |-> GetVal(s1), red |-> GetVal(s2)],
         s |-> s3]

\* lines 76-99: the pixel loops; i runs from height-1 down to 0, j from 0 up
RECURSIVE read_loop(_, _, _, _, _, _, _, _)
read_loop(s, image, pos, i, j, width, n, padding) ==
    IF i < 0 THEN image
    ELSE IF j < width
    THEN LET p == ReadPixel(s, pos)
         IN  read_loop(p.s, [image EXCEPT ![i + 1][j + 1] = p.pixel],
                       pos + n, i, j + 1, width, n, padding)
    ELSE read_loop(s, image, pos + padding, i - 1, 0, width, n, padding)

read_image(data) ==
    LET s0 == OpenStream(data)
        f1 == get_int(s0, 2, 4)
        f2 == get_int(f1.s, 10, 4)
        f3 == get_int(f2.s, 18, 4)
        f4 == get_int(f3.s, 22, 4)
        f5 == get_int(f4.s, 28, 2)
        file_size == f1.val
        start == f2.val
        width == f3.val
        height == f4.val
        bits_per_pixel == f5.val
        scanline_size == width * CDiv(bits_per_pixel, 8)
        padding == read_padding(scanline_size)
        valid == file_size = start + (scanline_size + padding) * height
    IN  [valid |-> valid,
         file_size |-> file_size, start |-> start, width |-> width,
         height |-> height, bits_per_pixel |-> bits_per_pixel,
         scanline_size |-> scanline_size, padding |-> padding,
         image |-> IF ~valid THEN << >>
                   ELSE read_loop(f5.s, NewImage(height, width), start,
                                  height - 1, 0, width,
                                  CDiv(bits_per_pixel, 8), padding)]

(***************************************************************************)
(* write_image                                                             *)
(***************************************************************************)
\* mutant of set_bytes: the most significant byte is stored first
set_bytes_big_endian(arr, offset, bytes, value) ==
    [k \in DOMAIN arr |->
        IF k - 1 >= offset /\ k - 1 < offset + bytes
        THEN UChar(Shr(value, (offset + bytes - k) * 8))
        ELSE arr[k]]

set_bytes(arr, offset, bytes, value) ==
    [k \in DOMAIN arr |->
        IF k - 1 >= offset /\ k - 1 < offset + bytes
        THEN UChar(Shr(value, (k - 1 - offset) * 8))
        ELSE arr[k]]

Zeros(n) == [k \in 1..n |-> 0]

BMP_HEADER_SIZE == 14

DIB_HEADER_SIZE == 40

\* mutant of write_padding: without the outer % 4 an aligned row gets 4
write_padding_nomod(width_bytes) == 4 - CMod(width_bytes, 4)

\* line 139
write_padding(width_bytes) == CMod(4 - CMod(width_bytes, 4), 4)

\* lines 162-167
bmp_header(array_bytes) ==
    LET a0 == Zeros(BMP_HEADER_SIZE)
        a1 == set_bytes(a0, 0, 1, 66)    \* 'B'
        a2 == set_bytes(a1, 1, 1, 77)    \* 'M'
        a3 == set_bytes(a2, 2, 4, BMP_HEADER_SIZE + DIB_HEADER_SIZE + array_bytes)
        a4 == set_bytes(a3, 6, 2, 0)
        a5 == set_bytes(a4, 8, 2, 0)
    IN  set_bytes(a5, 10, 4, BMP_HEADER_SIZE + DIB_HEADER_SIZE)

\* lines 170-180
dib_header(width_pixels, height_pixels, array_bytes) ==
    LET d0 == Zeros(DIB_HEADER_SIZE)
        d1 == set_bytes(d0, 0, 4, DIB_HEADER_SIZE)
        d2 == set_bytes(d1, 4, 4, width_pixels)
        d3 == set_bytes(d2, 8, 4, height_pixels)
        d4 == set_bytes(d3, 12, 2, 1)
        d5 == set_bytes(d4, 14, 2, 24)
        d6 == set_bytes(d5, 16, 4, 0)
        d7 == set_bytes(d6, 20, 4, array_bytes)
        d8 == set_bytes(d7, 24, 4, 2835)
        d9 == set_bytes(d8, 28, 4, 2835)
        d10 == set_bytes(d9, 32, 4, 0)
    IN  set_bytes(d10, 36, 4, 0)

\* mutant of WritePixel: the pixel is written red, green, blue
WritePixel_rgb(p) == << UChar(p.red), UChar(p.green), UChar(p.blue) >>

\* lines 196-199: one pixel is written blue, green, red
WritePixel(p) == << UChar(p.blue), UChar(p.green), UChar(p.red) >>

\* mutant of write_loop: the rows are written first row first
RECURSIVE write_loop_topdown(_, _, _, _, _, _)
write_loop_topdown(out, image, h, w, width_pixels, padding_bytes) ==
    IF h < 0 THEN out
    ELSE IF w < width_pixels
    THEN write_loop_topdown(
             out \o << UChar(At(image, Height(image) - 1 - h, w).blue),
                       UChar(At(image, Height(image) - 1 - h, w).green),
                       UChar(At(image, Height(image) - 1 - h, w).red) >>,
             image, h, w + 1, width_pixels, padding_bytes)
    ELSE write_loop_topdown(out \o Zeros(padding_bytes), image, h - 1, 0,
                            width_pixels, padding_bytes)

\* lines 191-203: h runs from height_pixels-1 down to 0, w from 0 up
RECURSIVE write_loop(_, _, _, _, _, _)
write_loop(out, image, h, w, width_pixels, padding_bytes) ==
    IF h < 0 THEN out
    ELSE IF w < width_pixels
    THEN write_loop(out \o WritePixel(At(image, h, w)), image, h, w + 1,
                    width_pixels, padding_bytes)
    ELSE write_loop(out \o Zeros(padding_bytes), image, h - 1, 0,
                    width_pixels, padding_bytes)

\* write_image on a grid with at least one row (image[0] exists); can_open
\* says whether the destination could be opened for writing
write_image(can_open, image) ==
    LET width_pixels == Width(image)
        height_pixels == Height(image)
        padding_bytes == write_padding(width_pixels * 3)
        width_bytes == width_pixels * 3 + padding_bytes
        array_bytes == width_bytes * height_pixels
    IN  [ok |-> can_open,
         padding_bytes |-> padding_bytes,
         bytes |-> IF ~can_open THEN << >>
                   ELSE write_loop(bmp_header(array_bytes)
                                     \o dib_header(width_pixels, height_pixels,
                                                   array_bytes),
                                   image, height_pixels - 1, 0,
                                   width_pixels, padding_bytes)]

(***************************************************************************)
(* The transforms.  Each builds new_image, a grid of value-initialised     *)
(* pixels, and writes it pixel by pixel in the order of the nested loops.  *)
(***************************************************************************)
ChannelSum(p) == p.red + p.green + p.blue

\* mutant of gray_value_3: the quotient plus 1.5
gray_value_3_up(p) == CDiv(2 * CDiv(ChannelSum(p), 3) + 3, 2)

\* line 327: int gray_value = ((red + green + blue)/3) + 0.5;
\* the int quotient plus 0.5, truncated to int (in halves: (2q + 1) / 2)
gray_value_3(p) == CDiv(2 * CDiv(ChannelSum(p), 3) + 1, 2)

process_3_pixel(p) == Pixel(gray_value_3(p), gray_value_3(p), gray_value_3(p))

\* line 445: int gray_value = (red + green + blue)/3;
gray_value_7(p) == CDiv(ChannelSum(p), 3)

\* line 448: the threshold 255/2 is an int division
threshold_7 == CDiv(255, 2)

process_7_pixel(p) ==
    IF gray_value_7(p) >= threshold_7 THEN Pixel(255, 255, 255)
    ELSE Pixel(0, 0, 0)

\* the loops of process_3: iteration k is row k / width, col k % width
RECURSIVE process_3_loop(_, _, _)
process_3_loop(image, new_image, k) ==
    IF k >= Height(image) * Width(image) THEN new_image
    ELSE LET row == k \div Width(image)
             col == k % Width(image)
         IN  process_3_loop(image,
                 [new_image EXCEPT ![row + 1][col + 1] =
                      process_3_pixel(At(image, row, col))],
                 k + 1)

process_3(image) ==
    process_3_loop(image, NewImage(Height(image), Width(image)), 0)

RECURSIVE process_7_loop(_, _, _)
process_7_loop(image, new_image, k) ==
    IF k >= Height(image) * Width(image) THEN new_image
    ELSE LET row == k \div Width(image)
             col == k % Width(image)
         IN  process_7_loop(image,
                 [new_image EXCEPT ![row + 1][col + 1] =
                      process_7_pixel(At(image, row, col))],
                 k + 1)

process_7(image) ==
    process_7_loop(image, NewImage(Height(image), Width(image)), 0)

\* mutant of process_4_target: the grid is transposed, not rotated
process_4_target_transpose(height_pixels, row, col) ==
    [row |-> col, col |-> row]

\* lines 363-365: the position process_4 writes in iteration (row, col)
process_4_target(height_pixels, row, col) ==
    [row |-> col, col |-> (height_pixels - 1) - row]

\* lines 352-366; acc.image is new_image, and acc.writes counts, for every
\* position of new_image, the assignments made to it
RECURSIVE process_4_loop(_, _, _)
process_4_loop(image, acc, k) ==
    IF k >= Height(image) * Width(image) THEN acc
    ELSE LET row == k \div Width(image)
             col == k % Width(image)
             t == process_4_target(Height(image), row, col)
             p == At(image, row, col)
         IN  process_4_loop(image,
                 [image |-> [acc.image EXCEPT ![t.row + 1][t.col + 1] =
                                 Pixel(p.red, p.green, p.blue)],
                  writes |-> [acc.writes EXCEPT ![t.row + 1][t.col + 1] = @ + 1]],
                 k + 1)

\* line 349: new_image has width_pixels rows of height_pixels pixels
process_4_run(image) ==
    process_4_loop(image,
        [image |-> NewImage(Width(image), Height(image)),
         writes |-> [i \in 1..Width(image) |-> [j \in 1..Height(image) |-> 0]]],
        0)

process_4(image) == process_4_run(image).image

\* lines 376-388
process_5(image, number) ==
    LET angle == number * 90
    IN  IF CMod(angle, 90) # 0 THEN image
        ELSE IF CMod(angle, 360) = 0 THEN image
        ELSE IF CMod(angle, 360) = 90 THEN process_4(image)
        ELSE IF CMod(angle, 360) = 180 THEN process_4(process_4(image))
        ELSE process_4(process_4(process_4(image)))

\* mutant of process_6_index: the divisor is off by one
process_6_index_off(k, scale_) == CDiv(k, scale_ + 1)

\* lines 406-408: the index (row/y_scale)+0.5 is the int quotient plus 0.5,
\* converted to the index type by truncation (in halves: (2q + 1) / 2)
process_6_index(k, scale_) == CDiv(2 * CDiv(k, scale_) + 1, 2)

\* lines 402-418: iteration k is row k / (width*x_scale), col k % (width*x_scale)
RECURSIVE process_6_loop(_, _, _, _, _)
process_6_loop(image, new_image, x_scale, y_scale, k) ==
    IF k >= (Height(image) * y_scale) * (Width(image) * x_scale) THEN new_image
    ELSE LET row == k \div (Width(image) * x_scale)
             col == k % (Width(image) * x_scale)
             p == At(image, process_6_index(row, y_scale),
                     process_6_index(col, x_scale))
         IN  process_6_loop(image,
                 [new_image EXCEPT ![row + 1][col + 1] =
                      Pixel(p.red, p.green, p.blue)],
                 x_scale, y_scale, k + 1)

\* process_6 with scales >= 0 (a negative scale makes the constructor of
\* new_image throw)
process_6(image, x_scale, y_scale) ==
    process_6_loop(image,
        NewImage(Height(image) * y_scale, Width(image) * x_scale),
        x_scale, y_scale, 0)

(***************************************************************************)
(* process_1.  distance = sqrt(D) with D = (col - width/2)^2 +             *)
(* (row - height/2)^2, scaling_factor = (height - distance)/height, and a  *)
(* channel c becomes c * scaling_factor converted to int, that is          *)
(* truncated toward zero.  The value is computed here in exact arithmetic  *)
(* (the rounding of the double operations is not modelled): for c >= 0 and *)
(* D <= height^2 it is the largest k with k <= c * (height - sqrt(D)) /    *)
(* height, that is with c^2 * D <= ((c - k) * height)^2.                   *)
(***************************************************************************)
\* line 233: the square of distance
distance_sq(row, col, width_pixels, height_pixels) ==
    (col - CDiv(width_pixels, 2)) * (col - CDiv(width_pixels, 2))
      + (row - CDiv(height_pixels, 2)) * (row - CDiv(height_pixels, 2))

\* whether k <= a * |h - sqrt(D)| / h, for a >= 0 and k >= 0
ScaledFits(a, h, D, k) ==
    IF D <= h * h
    THEN k <= a /\ a * a * D <= ((a - k) * h) * ((a - k) * h)
    ELSE ((k + a) * h) * ((k + a) * h) <= a * a * D

\* the largest such k, the integer part of a * |h - sqrt(D)| / h
ScaledFloor(a, h, D) ==
    CHOOSE k \in 0..(a * (D + 1)) :
        ScaledFits(a, h, D, k) /\ ~ScaledFits(a, h, D, k + 1)

\* lines 234-240: one channel times scaling_factor, converted to int
process_1_channel(c, height_pixels, D) ==
    LET magnitude == ScaledFloor(Abs(c), height_pixels, D)
    IN  IF (c < 0) = (D > height_pixels * height_pixels)
        THEN magnitude ELSE -magnitude

RECURSIVE process_1_loop(_, _, _)
process_1_loop(image, new_image, k) ==
    IF k >= Height(image) * Width(image) THEN new_image
    ELSE LET row == k \div Width(image)
             col == k % Width(image)
             D == distance_sq(row, col, Width(image), Height(image))
             p == At(image, row, col)
         IN  process_1_loop(image,
                 [new_image EXCEPT ![row + 1][col + 1] =
                      Pixel(process_1_channel(p.red, Height(image), D),
                            process_1_channel(p.green, Height(image), D),
                            process_1_channel(p.blue, Height(image), D))],
                 k + 1)

process_1(image) ==
    process_1_loop(image, NewImage(Height(image), Width(image)), 0)

(***************************************************************************)
(* process_2, process_8, process_9 and process_10 write every pixel of a   *)
(* new_image of the size of image from the pixel of image at the same      *)
(* place.  The double scaling_factor is held as factor, twice its value;   *)
(* a double product is converted to int by truncation toward zero.         *)
(***************************************************************************)
\* lines 492-494: 255 - (255 - c) * scaling_factor, converted to int
lighten(c, factor) == CDiv(2 * 255 - (255 - c) * factor, 2)

\* lines 527-529: c * scaling_factor, converted to int
darken(c, factor) == CDiv(c * factor, 2)

\* lines 276-292
process_2_pixel(p, factor) ==
    LET average_value == CDiv(ChannelSum(p), 3)
    IN  IF average_value >= 170
        THEN Pixel(lighten(p.red, factor), lighten(p.green, factor),
                   lighten(p.blue, factor))
        ELSE IF average_value < 90
        THEN Pixel(darken(p.red, factor), darken(p.green, factor),
                   darken(p.blue, factor))
        ELSE Pixel(p.red, p.green, p.blue)

process_2(image, factor) ==
    [i \in 1..Height(image) |->
        [j \in 1..Width(image) |-> process_2_pixel(image[i][j], factor)]]

process_8_pixel(p, factor) ==
    Pixel(lighten(p.red, factor), lighten(p.green, factor),
          lighten(p.blue, factor))

process_8(image, factor) ==
    [i \in 1..Height(image) |->
        [j \in 1..Width(image) |-> process_8_pixel(image[i][j], factor)]]

process_9_pixel(p, factor) ==
    Pixel(darken(p.red, factor), darken(p.green, factor),
          darken(p.blue, factor))

process_9(image, factor) ==
    [i \in 1..Height(image) |->
        [j \in 1..Width(image) |-> process_9_pixel(image[i][j], factor)]]

\* lines 562-585
process_10_pixel(p) ==
    LET max_color == IF p.red >= p.green /\ p.red >= p.blue THEN p.red
                     ELSE IF p.green >= p.blue THEN p.green ELSE p.blue
    IN  IF ChannelSum(p) >= 550 THEN Pixel(255, 255, 255)
        ELSE IF ChannelSum(p) <= 150 THEN Pixel(0, 0, 0)
        ELSE IF max_color = p.red THEN Pixel(255, 0, 0)
        ELSE IF max_color = p.green THEN Pixel(0, 255, 0)
        ELSE Pixel(0, 0, 255)

process_10(image) ==
    [i \in 1..Height(image) |->
        [j \in 1..Width(image) |-> process_10_pixel(image[i][j])]]

(***************************************************************************)
(* The inputs.  A grid input is a rectangular grid with channels in        *)
(* 0..255: a pattern grid, all of whose channels differ, or a grid of one  *)
(* pixel whose channel sum ranges over 0..765.  A file input is a byte     *)
(* stream with the 54 header bytes of a BMP file and a pixel array; its    *)
(* declared file size may disagree with its header fields, its length may  *)
(* disagree with its declared file size, and its pixel-array offset,       *)
(* resolution fields and padding bytes vary.                               *)
(***************************************************************************)
Seeds == {0, 250}

PatternPixel(seed, k) ==
    Pixel((seed + 3 * k) % 256, (seed + 3 * k + 1) % 256, (seed + 3 * k + 2) % 256)

PatternGrid(h, w, seed) ==
    [i \in 1..h |-> [j \in 1..w |-> PatternPixel(seed, (i - 1) * w + (j - 1))]]

PatternGrids == {PatternGrid(h, w, seed) : h \in 1..MaxH, w \in 0..MaxW, seed \in Seeds}

PixelGrids ==
    { << << Pixel(r, gb[1], gb[2]) >> >> :
        r \in 0..255,
        gb \in { <<0, 0>>, <<127, 127>>, <<128, 127>>, <<128, 128>>, <<255, 255>> } }

GridInputs == PatternGrids \cup PixelGrids

\* byte i of the little-endian encoding of value
LEByte(value, i) == (value \div (256 ^ i)) % 256

\* the smallest p >= 0 making rowbytes + p a multiple of 4
LeastPadding(rowbytes) == CHOOSE p \in 0..3 : (rowbytes + p) % 4 = 0

FileParams ==
    [w : 0..MaxW, h : 0..MaxH, bpp : {8, 24, 32, 40}, start : {54, 58},
     size_delta : {0, 4}, len_delta : {-2, 0, 3}, res : {2835, 0},
     padval : {0, 9}, seed : {1, 251}]

FileRow(f) == f.w * (f.bpp \div 8) + LeastPadding(f.w * (f.bpp \div 8))

FileByte(f, k) ==
    CASE k = 0 -> 66
      [] k = 1 -> 77
      [] k \in 2..5 -> LEByte(f.start + FileRow(f) * f.h + f.size_delta, k - 2)
      [] k \in 10..13 -> LEByte(f.start, k - 10)
      [] k \in 14..17 -> LEByte(40, k - 14)
      [] k \in 18..21 -> LEByte(f.w, k - 18)
      [] k \in 22..25 -> LEByte(f.h, k - 22)
      [] k \in 26..27 -> LEByte(1, k - 26)
      [] k \in 28..29 -> LEByte(f.bpp, k - 28)
      [] k \in 34..37 -> LEByte(FileRow(f) * f.h, k - 34)
      [] k \in 38..41 -> LEByte(f.res, k - 38)
      [] k \in 42..45 -> LEByte(f.res, k - 42)
      [] k >= f.start ->
            IF FileRow(f) = 0 \/ (k - f.start) % FileRow(f) >= f.w * (f.bpp \div 8)
            THEN f.padval
            ELSE (f.seed + 5 * (k - f.start)) % 256
      [] OTHER -> 0

FileOf(f) ==
    [k \in 1..(f.start + FileRow(f) * f.h + f.len_delta) |-> FileByte(f, k - 1)]

FileInputs == {FileOf(f) : f \in FileParams}

(***************************************************************************)
(* The state: the input file, the grid read from it or given, the calls    *)
(* made so far, and what the last read_image, write_image and transform    *)
(* returned.                                                               *)
(***************************************************************************)
VARIABLES
    file,        \* the bytes of the input file; << >> when the grid is given
    image,       \* the grid that is written and transformed
    calls,       \* the functions called so far, in order
    rd,          \* read_image's locals and result, of its last call
    wr,          \* write_image's locals and the bytes it wrote, of its last call
    arg,         \* the grid passed to the last transform
    number,      \* the number passed to process_5
    new_image,   \* the grid the last transform returned
    writes,      \* per position of new_image, the assignments process_4 made
    scale,       \* << x_scale, y_scale >> passed to process_6
    factor,      \* twice the scaling_factor passed to process_2, 8 and 9
    filename,    \* main's filename, the name shown as current
    menuSelect,  \* main's menuSelect, the last selection entered
    pc           \* where main is; "call" while the functions are called directly

\* the variables of main and the parameters only main and process_6 set
mvars == << factor, filename, menuSelect, pc >>

vars == << file, image, calls, rd, wr, arg, number, new_image, writes,
           scale, factor, filename, menuSelect, pc >>

NoRead == [valid |-> FALSE, image |-> << >>]

NoWrite == [ok |-> FALSE, bytes |-> << >>]

\* a grid with at least one pixel, as the transforms take it
NonEmpty(g) == Len(g) >= 1 /\ Len(g[1]) >= 1

Init ==
    /\ \/ file \in FileInputs /\ image = << >>
       \/ file = << >> /\ image \in GridInputs
    /\ calls = << >>
    /\ rd = NoRead
    /\ wr = NoWrite
    /\ arg = << >>
    /\ number = 0
    /\ new_image = << >>
    /\ writes = << >>
    /\ scale = << 1, 1 >>
    /\ factor = 2
    /\ filename = ""
    /\ menuSelect = ""
    /\ pc = "call"

\* image = read_image(filename)
ReadImage ==
    /\ calls = << >>
    /\ file # << >>
    /\ rd' = read_image(file)
    /\ image' = rd'.image
    /\ calls' = << "read_image" >>
    /\ UNCHANGED << file, wr, arg, number, new_image, writes >>
    /\ UNCHANGED << scale, mvars >>

\* write_image(outputFilename, image), on a grid with at least one row
WriteImage ==
    /\ \/ calls = << >> /\ file = << >>
       \/ calls = << "read_image" >>
    /\ image # << >>
    /\ \E can_open \in BOOLEAN : wr' = write_image(can_open, image)
    /\ calls' = Append(calls, "write_image")
    /\ UNCHANGED << file, image, rd, arg, number, new_image, writes >>
    /\ UNCHANGED << scale, mvars >>

\* read_image of the file that write_image wrote
ReadBack ==
    /\ calls = << "write_image" >>
    /\ wr.ok
    /\ rd' = read_image(wr.bytes)
    /\ calls' = Append(calls, "read_image")
    /\ UNCHANGED << file, image, wr, arg, number, new_image, writes >>
    /\ UNCHANGED << scale, mvars >>

Process3 ==
    /\ calls = << >> /\ file = << >>
    /\ NonEmpty(image)
    /\ arg' = image
    /\ new_image' = process_3(image)
    /\ calls' = << "process_3" >>
    /\ UNCHANGED << file, image, rd, wr, number, writes >>
    /\ UNCHANGED << scale, mvars >>

\* process_4 of the given grid, then of the grid it returned, and so on
Process4 ==
    /\ file = << >>
    /\ NonEmpty(image)
    /\ Len(calls) < MaxRot
    /\ \A k \in DOMAIN calls : calls[k] = "process_4"
    /\ arg' = IF calls = << >> THEN image ELSE new_image
    /\ new_image' = process_4(arg')
    /\ writes' = process_4_run(arg').writes
    /\ calls' = Append(calls, "process_4")
    /\ UNCHANGED << file, image, rd, wr, number >>
    /\ UNCHANGED << scale, mvars >>

Process5 ==
    /\ calls = << >> /\ file = << >>
    /\ NonEmpty(image)
    /\ \E n \in (-MaxN)..MaxN :
         /\ number' = n
         /\ new_image' = process_5(image, n)
    /\ arg' = image
    /\ calls' = << "process_5" >>
    /\ UNCHANGED << file, image, rd, wr, writes >>
    /\ UNCHANGED << scale, mvars >>

Process7 ==
    /\ calls = << >> /\ file = << >>
    /\ NonEmpty(image)
    /\ arg' = image
    /\ new_image' = process_7(image)
    /\ calls' = << "process_7" >>
    /\ UNCHANGED << file, image, rd, wr, number, writes >>
    /\ UNCHANGED << scale, mvars >>

\* process_3 of the grid process_3 returned
Process3Again ==
    /\ calls = << "process_3" >>
    /\ arg' = new_image
    /\ new_image' = process_3(new_image)
    /\ calls' = Append(calls, "process_3")
    /\ UNCHANGED << file, image, rd, wr, number, writes >>
    /\ UNCHANGED << scale, mvars >>

\* process_7 of the grid process_7 returned
Process7Again ==
    /\ calls = << "process_7" >>
    /\ arg' = new_image
    /\ new_image' = process_7(new_image)
    /\ calls' = Append(calls, "process_7")
    /\ UNCHANGED << file, image, rd, wr, number, writes >>
    /\ UNCHANGED << scale, mvars >>

Process6 ==
    /\ calls = << >> /\ file = << >>
    /\ NonEmpty(image)
    /\ \E x_scale \in 1..MaxScale, y_scale \in 1..MaxScale :
         /\ scale' = << x_scale, y_scale >>
         /\ new_image' = process_6(image, x_scale, y_scale)
    /\ arg' = image
    /\ calls' = << "process_6" >>
    /\ UNCHANGED << file, image, rd, wr, number, writes >>
    /\ UNCHANGED mvars

Process1 ==
    /\ calls = << >> /\ file = << >>
    /\ NonEmpty(image)
    /\ arg' = image
    /\ new_image' = process_1(image)
    /\ calls' = << "process_1" >>
    /\ UNCHANGED << file, image, rd, wr, number, writes >>
    /\ UNCHANGED << scale, mvars >>

Next ==
    \/ ReadImage
    \/ WriteImage
    \/ ReadBack
    \/ Process3
    \/ Process4
    \/ Process5
    \/ Process7
    \/ Process3Again
    \/ Process7Again
    \/ Process6
    \/ Process1

Spec == Init /\ [][Next]_vars

(***************************************************************************)
(* main.  The files that can be named are on Disk; the tokens typed are    *)
(* well formed (a number where a number is read), so cin never fails.  pc  *)
(* is "enter" before the filename is read, "menu" at the head of the loop, *)
(* "quit" after the loop, "terminated" after an uncaught exception and     *)
(* "crashed" when undefined behaviour ended the process.  Undefined        *)
(* behaviour (image[0] of an empty grid) either ends the process or lets   *)
(* it go on.  calls holds the calls of the last selection.                 *)
(***************************************************************************)
Filenames == {"a.bmp", "b.bmp", "bad.bmp", "cut.bmp"}

\* a 2 x 2 and a 3 x 1 file of 24 bits per pixel, a file whose declared
\* size disagrees with its header, and a file that ends before its
\* declared size
Disk(name) ==
    LET f == [w |-> 2, h |-> 2, bpp |-> 24, start |-> 54, size_delta |-> 0,
              len_delta |-> 0, res |-> 2835, padval |-> 0, seed |-> 1]
    IN  CASE name = "a.bmp" -> FileOf(f)
          [] name = "b.bmp" -> FileOf([f EXCEPT !.w = 3, !.h = 1, !.seed = 251])
          [] name = "bad.bmp" -> FileOf([f EXCEPT !.size_delta = 4])
          [] name = "cut.bmp" -> FileOf([f EXCEPT !.len_delta = -2])

\* the scaling factors typed, doubled: 0.5, 1 and 1.5
Factors == {1, 2, 3}

InitMain ==
    /\ file = << >>
    /\ image = << >>
    /\ calls = << >>
    /\ rd = NoRead
    /\ wr = NoWrite
    /\ arg = << >>
    /\ number = 0
    /\ new_image = << >>
    /\ writes = << >>
    /\ scale = << 1, 1 >>
    /\ factor = 2
    /\ filename = ""
    /\ menuSelect = ""
    /\ pc = "enter"

\* lines 607-612: cin >> filename; image = read_image(filename)
EnterFilename ==
    /\ pc = "enter"
    /\ \E name \in Filenames :
         /\ filename' = name
         /\ file' = Disk(name)
         /\ rd' = read_image(Disk(name))
    /\ image' = rd'.image
    /\ calls' = << "read_image" >>
    /\ pc' = "menu"
    /\ UNCHANGED << wr, arg, number, new_image, writes, scale, factor,
                    menuSelect >>

\* what no selection changes apart from its own parameters
Kept == UNCHANGED << file, image, rd, filename, writes >>

\* rotationNum, x_scale, y_scale and scalingFactor are locals of their
\* cases: a selection that does not read one leaves it at its initial value
Locals(rotationNum, scales, scalingFactor) ==
    /\ number' = rotationNum
    /\ scale' = scales
    /\ factor' = scalingFactor

\* lines 638-641
Quit ==
    /\ pc = "menu"
    /\ menuSelect' \in {"Q", "q"}
    /\ pc' = "quit"
    /\ Kept
    /\ UNCHANGED << calls, wr, arg, number, new_image, scale, factor >>

\* line 643: stoi throws on a selection that is no number
SelectNoNumber ==
    /\ pc = "menu"
    /\ menuSelect' = "x"
    /\ pc' = "terminated"
    /\ Kept
    /\ UNCHANGED << calls, wr, arg, number, new_image, scale, factor >>

\* lines 824-827: default
SelectOther ==
    /\ pc = "menu"
    /\ menuSelect' \in {"11", "-1"}
    /\ pc' = "quit"
    /\ Kept
    /\ UNCHANGED << calls, wr, arg, number, new_image, scale, factor >>

\* lines 645-651: case 0 reads the new filename and nothing else
ChangeImage ==
    /\ pc = "menu"
    /\ menuSelect' = "0"
    /\ \E name \in Filenames : filename' = name
    /\ pc' = "menu"
    /\ UNCHANGED << file, image, rd, writes >>
    /\ UNCHANGED << calls, wr, arg, number, new_image, scale, factor >>

\* a case of 1..10: new_image = fn(image ...), then
\* write_image(outputFilename, new_image).  result is what fn returns for
\* a non-empty image; on the empty grid fn reads image[0], and write_image
\* reads image[0] of an empty result.
Transform(selection, fn, result) ==
    /\ pc = "menu"
    /\ menuSelect' = selection
    /\ arg' = image
    /\ IF image = << >>
       THEN /\ calls' = << fn >>
            /\ new_image' = << >>
            /\ wr' = NoWrite
            /\ pc' \in {"crashed", "menu"}
       ELSE /\ calls' = << fn, "write_image" >>
            /\ new_image' = result
            /\ IF result = << >>
               THEN wr' = NoWrite /\ pc' \in {"crashed", "menu"}
               ELSE /\ \E can_open \in BOOLEAN :
                         wr' = write_image(can_open, result)
                    /\ pc' = "menu"
    /\ Kept

Select1 ==
    /\ Transform("1", "process_1", process_1(image))
    /\ Locals(0, << 1, 1 >>, 2)

Select2 ==
    /\ \E scalingFactor \in Factors :
         /\ Locals(0, << 1, 1 >>, scalingFactor)
         /\ Transform("2", "process_2", process_2(image, scalingFactor))

Select3 ==
    /\ Transform("3", "process_3", process_3(image))
    /\ Locals(0, << 1, 1 >>, 2)

Select4 ==
    /\ Transform("4", "process_4", process_4(image))
    /\ Locals(0, << 1, 1 >>, 2)

Select5 ==
    /\ \E rotationNum \in (-MaxN)..MaxN :
         /\ Locals(rotationNum, << 1, 1 >>, 2)
         /\ Transform("5", "process_5", process_5(image, rotationNum))

\* line 399 throws std::length_error when a scale is negative
Select6 ==
    /\ \E x_scale \in (-1)..MaxScale, y_scale \in (-1)..MaxScale :
         /\ Locals(0, << x_scale, y_scale >>, 2)
         /\ IF image # << >> /\ (x_scale < 0 \/ y_scale < 0)
            THEN /\ pc = "menu"
                 /\ menuSelect' = "6"
                 /\ arg' = image
                 /\ calls' = << "process_6" >>
                 /\ new_image' = << >>
                 /\ wr' = NoWrite
                 /\ pc' = "terminated"
                 /\ Kept
            ELSE Transform("6", "process_6", process_6(image, x_scale, y_scale))

Select7 ==
    /\ Transform("7", "process_7", process_7(image))
    /\ Locals(0, << 1, 1 >>, 2)

Select8 ==
    /\ \E scalingFactor \in Factors :
         /\ Locals(0, << 1, 1 >>, scalingFactor)
         /\ Transform("8", "process_8", process_8(image, scalingFactor))

Select9 ==
    /\ \E scalingFactor \in Factors :
         /\ Locals(0, << 1, 1 >>, scalingFactor)
         /\ Transform("9", "process_9", process_9(image, scalingFactor))

Select10 ==
    /\ Transform("10", "process_10", process_10(image))
    /\ Locals(0, << 1, 1 >>, 2)

NextMain ==
    \/ EnterFilename
    \/ Quit
    \/ SelectNoNumber
    \/ SelectOther
    \/ ChangeImage
    \/ Select1
    \/ Select2
    \/ Select3
    \/ Select4
    \/ Select5
    \/ Select6
    \/ Select7
    \/ Select8
    \/ Select9
    \/ Select10

SpecMain == InitMain /\ [][NextMain]_vars

(***************************************************************************)
(* What the claims are stated with: the BMP layout read off a byte         *)
(* sequence directly.                                                      *)
(***************************************************************************)
\* the unsigned little-endian number in bytes offset .. offset+n-1
RECURSIVE FieldAt(_, _, _)
FieldAt(bytes, offset, n) ==
    IF n = 0 THEN 0
    ELSE bytes[offset + 1] + 256 * FieldAt(bytes, offset + 1, n - 1)

\* what a stream holding bytes yields at offset k
StreamAt(bytes, k) == IF k < Len(bytes) THEN bytes[k + 1] ELSE EOF

Rectangular(g, h, w) == Len(g) = h /\ \A i \in 1..h : Len(g[i]) = w

WroteGiven == calls = << "write_image" >> /\ file = << >> /\ wr.ok

RoundTripped == calls = << "write_image", "read_image" >>

Decoded == calls = << "read_image" >>

Reencoded == calls = << "read_image", "write_image" >> /\ wr.ok

\* C1: read_image of the bytes write_image produced for a given grid
\* (non-empty, channels in 0..255, any width) returns a grid equal to it.
C1_RoundTrip == RoundTripped => rd.image = image

C1_Witness ==
    /\ RoundTripped
    /\ Height(image) = 2 /\ Width(image) = 3 /\ wr.padding_bytes = 3
    /\ rd.valid /\ rd.image = image

\* the header of the input is the one write_image emits for its width and
\* height, its padding bytes are zero and it is as long as it declares
CanonicalInput(b) ==
    LET w == FieldAt(b, 18, 4)
        h == FieldAt(b, 22, 4)
        row == 3 * w + LeastPadding(3 * w)
    IN  /\ Len(b) = FieldAt(b, 2, 4)
        /\ b[1] = 66 /\ b[2] = 77
        /\ FieldAt(b, 6, 4) = 0
        /\ FieldAt(b, 10, 4) = 54
        /\ FieldAt(b, 14, 4) = 40
        /\ FieldAt(b, 26, 2) = 1
        /\ FieldAt(b, 28, 2) = 24
        /\ FieldAt(b, 30, 4) = 0
        /\ FieldAt(b, 34, 4) = row * h
        /\ FieldAt(b, 38, 4) = 2835 /\ FieldAt(b, 42, 4) = 2835
        /\ FieldAt(b, 46, 4) = 0 /\ FieldAt(b, 50, 4) = 0
        /\ \A k \in 54..(Len(b) - 1) : (k - 54) % row >= 3 * w => b[k + 1] = 0

\* C2 as stated: write_image(read_image(bytes)) is the input, byte for byte,
\* for every accepted input of 24 bits per pixel, whatever its offset,
\* resolution fields, image-size field and padding bytes are.
C2_Original ==
    (Reencoded /\ rd.bits_per_pixel = 24) => wr.bytes = file

\* C2 as amended: ... for every accepted input of 24 bits per pixel whose
\* header fields are the ones write_image emits (pixel-array offset 54,
\* resolution 2835, image size the padded array size, ...), whose padding
\* bytes are zero and whose length is its declared file size.
C2_Amended ==
    (Reencoded /\ CanonicalInput(file)) => wr.bytes = file

C2_Witness ==
    /\ Reencoded /\ CanonicalInput(file)
    /\ rd.width = 3 /\ rd.height = 2
    /\ wr.bytes = file

\* C3: read_image returns the empty grid whenever the file-size field
\* differs from offset + (bytes-per-row + padding) * height, and a grid of
\* height rows of width pixels when they are equal.
C3_Validation ==
    Decoded =>
        LET file_size == FieldAt(file, 2, 4)
            start == FieldAt(file, 10, 4)
            w == FieldAt(file, 18, 4)
            h == FieldAt(file, 22, 4)
            rowbytes == w * (FieldAt(file, 28, 2) \div 8)
            expected == start + (rowbytes + LeastPadding(rowbytes)) * h
        IN  /\ file_size # expected => rd.image = << >> /\ image = << >>
            /\ file_size = expected => Rectangular(rd.image, h, w)

C3_Witness ==
    /\ Decoded
    /\ rd.file_size = rd.start + (rd.scanline_size + rd.padding) * rd.height + 4
    /\ rd.width = 3 /\ rd.height = 2
    /\ image = << >>

\* C4: for an accepted input of n >= 3 bytes per pixel, pixel (r, c) holds
\* as blue, green, red what the stream yields at offsets
\* start + (height-1-r) * (width*n + padding) + c*n, +1 and +2.
C4_PixelLayout ==
    (Decoded /\ rd.valid /\ FieldAt(file, 28, 2) \div 8 >= 3) =>
        LET start == FieldAt(file, 10, 4)
            w == FieldAt(file, 18, 4)
            h == FieldAt(file, 22, 4)
            n == FieldAt(file, 28, 2) \div 8
            row == w * n + LeastPadding(w * n)
        IN  \A r \in 0..(h - 1), c \in 0..(w - 1) :
                LET off == start + (h - 1 - r) * row + c * n
                IN  /\ At(image, r, c).blue = StreamAt(file, off)
                    /\ At(image, r, c).green = StreamAt(file, off + 1)
                    /\ At(image, r, c).red = StreamAt(file, off + 2)

C4_Witness ==
    /\ Decoded /\ rd.valid
    /\ rd.bits_per_pixel = 40 /\ rd.padding = 1
    /\ rd.width = 3 /\ rd.height = 2 /\ rd.start = 58
    /\ Len(file) >= rd.file_size
    /\ At(image, 0, 2).red = file[58 + 16 + 10 + 2 + 1]

\* C5: the bytes write_image emits for a given h x w grid: their length is
\* 54 + (3w + padding) * h and is the file-size field, the offset field is
\* 54, the bits-per-pixel field 24, pixel (r, c) is at
\* 54 + (h-1-r) * (3w + padding) + 3c as blue, green, red, and every
\* padding byte is zero.
C5_WriteLayout ==
    WroteGiven =>
        LET h == Height(image)
            w == Width(image)
            row == 3 * w + LeastPadding(3 * w)
            b == wr.bytes
        IN  /\ Len(b) = 54 + row * h
            /\ FieldAt(b, 2, 4) = Len(b)
            /\ FieldAt(b, 10, 4) = 54
            /\ FieldAt(b, 28, 2) = 24
            /\ \A r \in 0..(h - 1), c \in 0..(w - 1) :
                   LET off == 54 + (h - 1 - r) * row + 3 * c
                   IN  /\ b[off + 1] = At(image, r, c).blue
                       /\ b[off + 2] = At(image, r, c).green
                       /\ b[off + 3] = At(image, r, c).red
            /\ \A k \in 54..(Len(b) - 1) : (k - 54) % row >= 3 * w => b[k + 1] = 0

C5_Witness ==
    /\ WroteGiven
    /\ Height(image) = 2 /\ Width(image) = 2
    /\ Len(wr.bytes) = 70
    /\ wr.bytes[55] = At(image, 1, 0).blue
    /\ wr.bytes[61] = 0 /\ wr.bytes[62] = 0

\* the padding both functions computed for the width of the given grid
SamePadding(p) ==
    /\ rd.width = Width(image)
    /\ rd.bits_per_pixel = 24
    /\ rd.padding = p /\ wr.padding_bytes = p
    /\ p \in 0..3
    /\ (3 * Width(image) + p) % 4 = 0

\* C6 as stated: for every width >= 0 at 24 bits per pixel read_image and
\* write_image compute the same padding p, the smallest p >= 0 making
\* 3*width + p a multiple of 4, so that width 3 gives 1 and width 4 gives 0.
C6_Original ==
    RoundTripped =>
        /\ \E p \in 0..3 : SamePadding(p)
        /\ Width(image) = 3 => rd.padding = 1
        /\ Width(image) = 4 => rd.padding = 0

\* C6 as amended: ... so that width 3 gives 3 and width 4 gives 0.
C6_Amended ==
    RoundTripped =>
        /\ \E p \in 0..3 : SamePadding(p)
        /\ Width(image) = 3 => rd.padding = 3
        /\ Width(image) = 4 => rd.padding = 0

C6_Witness ==
    /\ RoundTripped
    /\ Width(image) = 3
    /\ rd.padding = 3 /\ wr.padding_bytes = 3

\* process_4 applied k times
RECURSIVE RotateTimes(_, _)
RotateTimes(g, k) == IF k = 0 THEN g ELSE RotateTimes(process_4(g), k - 1)

\* C7: process_5(g, N) is process_4 applied N mod 4 times to g, with N mod 4
\* in 0..3, for positive, zero and negative N.
C7_RotateN ==
    calls = << "process_5" >> => new_image = RotateTimes(image, number % 4)

Rotating == calls # << >> /\ \A k \in DOMAIN calls : calls[k] = "process_4"

\* C8: process_4 returns a w x h grid holding the input pixel (row, col) at
\* (col, h-1-row), every position written exactly once; four applications
\* in sequence return the original grid.
C8_Rotate90 ==
    Rotating =>
        LET h == Height(arg)
            w == Width(arg)
        IN  /\ Rectangular(new_image, w, h)
            /\ \A row \in 0..(h - 1), col \in 0..(w - 1) :
                   At(new_image, col, h - 1 - row) = At(arg, row, col)
            /\ \A i \in 1..w, j \in 1..h : writes[i][j] = 1
            /\ Len(calls) = 4 => new_image = image

C8_Witness ==
    /\ Rotating /\ Len(calls) = 4
    /\ Height(image) = 2 /\ Width(image) = 3
    /\ new_image = image /\ arg # image
    /\ At(image, 0, 0) # At(image, 1, 2)

\* C9: process_7 outputs white exactly when the average (R+G+B)/3 of the
\* pixel is at least 128, and black otherwise, so that channel sums 381,
\* 382 and 383 give black.
C9_HighContrast ==
    calls = << "process_7" >> =>
        \A r \in 0..(Height(image) - 1), c \in 0..(Width(image) - 1) :
            At(new_image, r, c) =
                IF ChannelSum(At(image, r, c)) >= 3 * 128
                THEN Pixel(255, 255, 255) ELSE Pixel(0, 0, 0)

\* (R+G+B)/3 rounded to the nearest integer
RoundThird(sum) == (2 * sum + 3) \div 6

\* C10: process_3 sets the three channels to (R+G+B)/3 rounded to the
\* nearest integer (sum 2 gives 1, sum 5 gives 2), not to its floor.
C10_Grayscale ==
    calls = << "process_3" >> =>
        \A r \in 0..(Height(image) - 1), c \in 0..(Width(image) - 1) :
            At(new_image, r, c) =
                Pixel(RoundThird(ChannelSum(At(image, r, c))),
                      RoundThird(ChannelSum(At(image, r, c))),
                      RoundThird(ChannelSum(At(image, r, c))))

\* the same transform applied to a grid and then to the grid it returned
Twice(name) == calls = << name, name >>

\* C11: process_3(process_3(g)) = process_3(g) and
\* process_7(process_7(g)) = process_7(g), for every non-empty grid g with
\* channels in 0..255.
C11_Idempotence ==
    (Twice("process_3") \/ Twice("process_7")) => new_image = arg

C11_Witness ==
    /\ Twice("process_3")
    /\ Height(image) = 2 /\ Width(image) = 3
    /\ arg # image
    /\ new_image = arg

\* C12: for a non-empty h x w grid and scales x_scale, y_scale >= 1,
\* process_6 returns a grid of height h*y_scale and width w*x_scale whose
\* pixel (r, c) is the input pixel (floor(r/y_scale), floor(c/x_scale)),
\* every such source index inside the input grid; with both scales 1 the
\* result is the input.
C12_Enlarge ==
    calls = << "process_6" >> =>
        LET h == Height(image)
            w == Width(image)
            x_scale == scale[1]
            y_scale == scale[2]
        IN  /\ Rectangular(new_image, h * y_scale, w * x_scale)
            /\ \A r \in 0..(h * y_scale - 1), c \in 0..(w * x_scale - 1) :
                   /\ r \div y_scale \in 0..(h - 1)
                   /\ c \div x_scale \in 0..(w - 1)
                   /\ At(new_image, r, c) =
                          At(image, r \div y_scale, c \div x_scale)
            /\ scale = << 1, 1 >> => new_image = image

C12_Witness ==
    /\ calls = << "process_6" >>
    /\ Height(image) = 2 /\ Width(image) = 3
    /\ scale = << 2, 2 >>
    /\ Height(new_image) = 4 /\ Width(new_image) = 6
    /\ At(new_image, 3, 5) = At(image, 1, 2)
    /\ At(new_image, 3, 5) # At(image, 0, 0)

\* a channel value v of the output against the input channel c
Dimmed(v, c) == 0 <= v /\ v <= c

\* C16: for every non-empty rectangular grid with channels in 0..255, of any
\* height and width (width above twice the height included), every channel
\* of every pixel process_1 returns lies between 0 and the input channel.
C16_Vignette ==
    calls = << "process_1" >> =>
        \A r \in 0..(Height(image) - 1), c \in 0..(Width(image) - 1) :
            /\ Dimmed(At(new_image, r, c).red, At(image, r, c).red)
            /\ Dimmed(At(new_image, r, c).green, At(image, r, c).green)
            /\ Dimmed(At(new_image, r, c).blue, At(image, r, c).blue)

\* the three bytes of the pixel stored last in b, by its header fields, are
\* not all inside b
PixelPastEnd(b) ==
    LET start == FieldAt(b, 10, 4)
        w == FieldAt(b, 18, 4)
        h == FieldAt(b, 22, 4)
        n == FieldAt(b, 28, 2) \div 8
        row == w * n + LeastPadding(w * n)
    IN  /\ w >= 1 /\ h >= 1
        /\ Len(b) < start + (h - 1) * row + (w - 1) * n + 3

IsByte(v) == v \in 0..255

\* C17: whenever read_image returns a non-empty grid, every channel of every
\* pixel is a byte of the input, so in 0..255; an input shorter than the
\* file size it declares, whose pixel reads would pass its end, is decoded
\* to the empty grid.
C17_RealBytes ==
    Decoded =>
        /\ image # << >> =>
               \A r \in 0..(Height(image) - 1), c \in 0..(Width(image) - 1) :
                   /\ IsByte(At(image, r, c).red)
                   /\ IsByte(At(image, r, c).green)
                   /\ IsByte(At(image, r, c).blue)
        /\ (Len(file) < FieldAt(file, 2, 4) /\ PixelPastEnd(file)) =>
               image = << >>

TransformNames ==
    {"process_1", "process_2", "process_3", "process_4", "process_5",
     "process_6", "process_7", "process_8", "process_9", "process_10"}

TransformSelections == {"1", "2", "3", "4", "5", "6", "7", "8", "9", "10"}

\* C13: in main no transform and no write_image is called on an empty
\* grid: when read_image returned the empty grid, no later selection
\* reaches a transform or write_image call.
C13_EmptyGuarded ==
    \A k \in DOMAIN calls :
        /\ calls[k] \in TransformNames => arg # << >>
        /\ calls[k] = "write_image" => new_image # << >>
        /\ rd.image = << >> => calls[k] = "read_image"

\* C14: after transform selections on a decoded image, those whose
\* write_image returned false included, main holds the grid it held before
\* and is at the head of the menu loop.
C14_Frame ==
    (rd.image # << >> /\ menuSelect \in TransformSelections) =>
        /\ image = rd.image
        /\ pc = "menu"

\* C15: at the head of the menu loop the grid main holds is the grid
\* decoded from the file the current filename names, also after selection 0
\* entered the filename.
C15_CurrentImage ==
    pc = "menu" => image = read_image(Disk(filename)).image

====
